---- MODULE Spec2Model ----
(***************************************************************************)
(* Model of mt-collatz.cpp: T threads pull integers from the atomic       *)
(* COUNTER, compute the Collatz stopping time of each and count it in the *)
(* shared histogram; main spawns the threads and joins them.              *)
(*                                                                         *)
(* A worker step is one access to shared memory (fetch_add, mutex lock,   *)
(* mutex unlock, load of a histogram entry, store of a histogram entry);  *)
(* the thread-local code that follows an access belongs to the same step. *)
(***************************************************************************)
EXTENDS Integers, Naturals, Sequences, FiniteSets, TLC

\* ---------------------------------------------------------------- bounds
MaxNegN == 1
MaxShortN == 4
MaxN == 13
MaxT == 2
MaxInput == 100
LiveMaxN == 3

\* ------------------------------------------------------ program constants
CAP == 1000
Free == 0
INT_MAX == 2147483647
INT_MIN == -INT_MAX - 1
Limb == 65536

VARIABLES
  N,              \* main: int N = atoi(argv[1])
  T,              \* main: int T = atoi(argv[2])
  use_locks,      \* global flag, cleared by -nolock
  COUNTER,        \* std::atomic<int> COUNTER(1)
  histogram,      \* std::vector<int> histogram(1001, 0): the entries stored to so far
  mtx,            \* std::mutex mtx: Free or the worker that holds it
  pc,             \* position of each worker thread
  num,            \* collatz_worker: int num
  stopping_time,  \* collatz_worker: int stopping_time
  tmp,            \* value loaded by histogram[stopping_time]++ before the store
  mainpc,         \* position of main
  mi,             \* main: loop index of the spawn loop / the join loop
  claimed,        \* history: the values returned by COUNTER.fetch_add, in order
  raced,          \* history: two workers were between load and store of one entry
  arg,            \* argument of a direct call of compute_stopping_time
  ret             \* its result (-1 before the call)

vars == <<N, T, use_locks, COUNTER, histogram, mtx, pc, num, stopping_time,
          tmp, mainpc, mi, claimed, raced, arg, ret>>

Workers == 1..MaxT

\* ------------------------------------------------------------ arithmetic
\* Values are C++ ints. Results that do not fit 32 bits are computed on two
\* 16-bit limbs, so that no intermediate value leaves the 32-bit range.

\* x + 1 on a 32-bit int (std::atomic<int> and the generated add both wrap)
Inc32(x) == IF x = INT_MAX THEN INT_MIN ELSE x + 1

\* the int whose two's-complement limbs are hi (0..65535) and lo (0..65535)
FromLimbs(hi, lo) == (IF hi >= Limb \div 2 THEN hi - Limb ELSE hi) * Limb + lo

\* C++ n % 2 == 0 (the remainder truncates toward zero; it is 0 exactly for even n)
IsEven(n) == n % 2 = 0

\* C++ n / 2 on int: truncates toward zero
Half(n) == IF n >= 0 THEN n \div 2 ELSE (n + 1) \div 2

\* n = 3 * n + 1 on int. Signed overflow is undefined; the generated code
\* (lea/imul on a 32-bit register) leaves the low 32 bits of the result.
TriplePlusOne(n) ==
  LET lo == 3 * (n % Limb) + 1
      hi == 3 * ((n \div Limb) % Limb) + (lo \div Limb)
  IN  FromLimbs(hi % Limb, lo % Limb)

\* (variant: the two branches are swapped)
CollatzStep_Swapped(n) == IF IsEven(n) THEN TriplePlusOne(n) ELSE Half(n)

\* one iteration of the loop body of compute_stopping_time
CollatzStep(n) == IF IsEven(n) THEN Half(n) ELSE TriplePlusOne(n)

\* (variant: the cap is tested with <=, one iteration too many)
LoopRuns_Inclusive(st) == st[1] # 1 /\ st[2] <= CAP

\* while(n != 1 && steps < 1000): the loop condition on the state <<n, steps>>
LoopRuns(st) == st[1] # 1 /\ st[2] < CAP

\* the while loop, at most k iterations from the state st; the iterations are
\* composed by halves so that the evaluation depth stays logarithmic in k
\* (the state after the first half is bound as an element of a singleton set,
\* which makes TLC evaluate it once)
RECURSIVE StoppingLoop(_, _)
StoppingLoop(st, k) ==
  IF ~LoopRuns(st) THEN st
  ELSE IF k = 1 THEN <<CollatzStep(st[1]), st[2] + 1>>
  ELSE CHOOSE r \in {StoppingLoop(h, k - (k \div 2)) :
                       h \in {StoppingLoop(st, k \div 2)}} : TRUE

\* int steps = 0; the loop; return steps. The loop ends by its own condition
\* within CAP iterations; the budget of 2 * CAP iterations is never used up.
compute_stopping_time(n) == StoppingLoop(<<n, 0>>, 2 * CAP)[2]

\* ---------------------------------------------------------------- worker
\* (variant: the incremented value is returned, as ++COUNTER would)
FetchAddReturn_PreIncrement(c) == Inc32(c)

\* (variant: fetch_add(2))
FetchAddStore_ByTwo(c) == Inc32(Inc32(c))

\* COUNTER.fetch_add(1): the value returned and the value stored
FetchAddReturn(c) == c
FetchAddStore(c) == Inc32(c)

\* (variant: the loop runs one value too far, num > N + 1)
OutOfRange_OnePast(n, bound) == n > Inc32(bound)

\* (variant: the loop stops one value early, num >= N)
OutOfRange_OneShort(n, bound) == n >= bound

\* if(num > N) break;
OutOfRange(n, bound) == n > bound

\* (variant: the flag is ignored and the guard is always constructed)
TakesLock_Always(ul) == TRUE

\* if(use_locks) { std::lock_guard<std::mutex> scoped_lock(mtx); }
TakesLock(ul) == ul

\* (variant: the mutex is locked by hand and never unlocked)
Released_Never(w) == w

\* state of the mutex after the lock_guard destructor of worker w
Released(w) == Free

\* if(stopping_time <= 1000) histogram[stopping_time]++;
Records(st) == st <= CAP

\* histogram[s]. The vector has the 1001 entries 0..CAP, all 0 at start; the
\* variable keeps the entries that have been stored to, every other entry
\* still holds its initial 0.
Entry(h, s) == IF s \in DOMAIN h THEN h[s] ELSE 0

\* (variant: the store replaces the vector by one that holds only entry s)
Store_Clobber(h, s, v) == [i \in {s} |-> v]

\* the vector after histogram[s] = v
Store(h, s, v) == [i \in DOMAIN h \cup {s} |-> IF i = s THEN v ELSE h[i]]

\* (variant: an atomic increment, which adds one to the current value)
IncrementStore_Atomic(loaded, current) == Inc32(current)

\* value stored by histogram[stopping_time]++ : the value loaded, plus one
IncrementStore(loaded, current) == Inc32(loaded)

\* where the worker goes after the lock_guard block
AfterLockBlock(st) == IF Records(st) THEN "read" ELSE "claim"

Claim(w) ==
  /\ pc[w] = "claim"
  /\ LET n == FetchAddReturn(COUNTER) IN
       /\ COUNTER' = FetchAddStore(COUNTER)
       /\ claimed' = Append(claimed, n)
       /\ num' = [num EXCEPT ![w] = n]
       /\ IF OutOfRange(n, N)
            THEN /\ pc' = [pc EXCEPT ![w] = "done"]
                 /\ UNCHANGED stopping_time
            ELSE LET st == compute_stopping_time(n) IN
                 /\ stopping_time' = [stopping_time EXCEPT ![w] = st]
                 /\ pc' = [pc EXCEPT ![w] =
                             IF TakesLock(use_locks) THEN "lock" ELSE AfterLockBlock(st)]
  /\ UNCHANGED <<N, T, use_locks, histogram, mtx, tmp, mainpc, mi, raced, arg, ret>>

\* lock_guard constructor: mtx.lock(), blocks while the mutex is held
Lock(w) ==
  /\ pc[w] = "lock"
  /\ mtx = Free
  /\ mtx' = w
  /\ pc' = [pc EXCEPT ![w] = "unlock"]
  /\ UNCHANGED <<N, T, use_locks, COUNTER, histogram, num, stopping_time, tmp,
                 mainpc, mi, claimed, raced, arg, ret>>

\* lock_guard destructor at the closing brace of the if block: mtx.unlock()
Unlock(w) ==
  /\ pc[w] = "unlock"
  /\ mtx' = Released(w)
  /\ pc' = [pc EXCEPT ![w] = AfterLockBlock(stopping_time[w])]
  /\ UNCHANGED <<N, T, use_locks, COUNTER, histogram, num, stopping_time, tmp,
                 mainpc, mi, claimed, raced, arg, ret>>

\* histogram[stopping_time]++ on a plain int: the load
Read(w) ==
  /\ pc[w] = "read"
  /\ tmp' = [tmp EXCEPT ![w] = Entry(histogram, stopping_time[w])]
  /\ raced' = (raced \/ \E v \in Workers :
                 v # w /\ pc[v] = "write" /\ stopping_time[v] = stopping_time[w])
  /\ pc' = [pc EXCEPT ![w] = "write"]
  /\ UNCHANGED <<N, T, use_locks, COUNTER, histogram, mtx, num, stopping_time,
                 mainpc, mi, claimed, arg, ret>>

\* histogram[stopping_time]++ on a plain int: the store. The loop body ends
\* here: num, stopping_time and the loaded value go out of scope (0).
Write(w) ==
  /\ pc[w] = "write"
  /\ histogram' = Store(histogram, stopping_time[w],
                        IncrementStore(tmp[w], Entry(histogram, stopping_time[w])))
  /\ pc' = [pc EXCEPT ![w] = "claim"]
  /\ num' = [num EXCEPT ![w] = 0]
  /\ stopping_time' = [stopping_time EXCEPT ![w] = 0]
  /\ tmp' = [tmp EXCEPT ![w] = 0]
  /\ UNCHANGED <<N, T, use_locks, COUNTER, mtx, mainpc, mi, claimed, raced, arg, ret>>

collatz_worker(w) == Claim(w) \/ Lock(w) \/ Unlock(w) \/ Read(w) \/ Write(w)

\* ------------------------------------------------------------------ main
\* threads.emplace_back(collatz_worker, N): thread i + 1 starts running
Spawn ==
  /\ mainpc = "spawn"
  /\ mi < T
  /\ pc' = [pc EXCEPT ![mi + 1] = "claim"]
  /\ mi' = mi + 1
  /\ UNCHANGED <<N, T, use_locks, COUNTER, histogram, mtx, num, stopping_time,
                 tmp, mainpc, claimed, raced, arg, ret>>

\* the spawn loop ends, the join loop begins
SpawnEnd ==
  /\ mainpc = "spawn"
  /\ mi >= T
  /\ mainpc' = "join"
  /\ mi' = 0
  /\ UNCHANGED <<N, T, use_locks, COUNTER, histogram, mtx, pc, num,
                 stopping_time, tmp, claimed, raced, arg, ret>>

\* th.join(): returns once that thread has left collatz_worker
Join ==
  /\ mainpc = "join"
  /\ mi < T
  /\ pc[mi + 1] = "done"
  /\ mi' = mi + 1
  /\ UNCHANGED <<N, T, use_locks, COUNTER, histogram, mtx, pc, num,
                 stopping_time, tmp, mainpc, claimed, raced, arg, ret>>

\* the join loop ends; main prints the histogram and returns
JoinEnd ==
  /\ mainpc = "join"
  /\ mi >= T
  /\ mainpc' = "exit"
  /\ UNCHANGED <<N, T, use_locks, COUNTER, histogram, mtx, pc, num,
                 stopping_time, tmp, mi, claimed, raced, arg, ret>>

main == Spawn \/ SpawnEnd \/ Join \/ JoinEnd

\* --------------------------------------- direct call of the pure function
\* a caller evaluates compute_stopping_time(arg)
Call ==
  /\ ret = -1
  /\ ret' = compute_stopping_time(arg)
  /\ UNCHANGED <<N, T, use_locks, COUNTER, histogram, mtx, pc, num,
                 stopping_time, tmp, mainpc, mi, claimed, raced, arg>>

\* ----------------------------------------------------------------- specs
\* inputs beyond the small range: the smallest n whose trajectory leaves the
\* 32-bit range, and the largest int
LargeInputs == {113383, INT_MAX}

Inputs == (1..MaxInput) \cup LargeInputs

\* the globals as constructed, before main runs
Globals ==
  /\ COUNTER = 1
  /\ histogram = <<>>
  /\ mtx = Free
  /\ pc = [w \in Workers |-> "idle"]
  /\ num = [w \in Workers |-> 0]
  /\ stopping_time = [w \in Workers |-> 0]
  /\ tmp = [w \in Workers |-> 0]
  /\ mainpc = "spawn"
  /\ mi = 0
  /\ claimed = <<>>
  /\ raced = FALSE

\* the values of N that are run: the empty ranges and the short ranges, the
\* range 1..10 of the specification's scenario, and the longest range
Ranges == ((-MaxNegN)..MaxShortN) \cup {10, MaxN}

Init ==
  /\ N \in Ranges
  /\ T \in 1..MaxT
  /\ use_locks \in BOOLEAN
  /\ Globals
  /\ arg = 1
  /\ ret = -1

Next ==
  \/ \E w \in Workers : Claim(w)
  \/ \E w \in Workers : Lock(w)
  \/ \E w \in Workers : Unlock(w)
  \/ \E w \in Workers : Read(w)
  \/ \E w \in Workers : Write(w)
  \/ Spawn
  \/ SpawnEnd
  \/ Join
  \/ JoinEnd

Spec == Init /\ [][Next]_vars

\* the same program on short ranges, with the scheduler's fairness: a thread
\* that can run is eventually run
LiveInit == Init /\ N <= LiveMaxN

LiveSpec ==
  /\ LiveInit
  /\ [][Next]_vars
  /\ \A w \in Workers : WF_vars(collatz_worker(w))
  /\ WF_vars(main)

\* compute_stopping_time called directly on each input
InitFn ==
  /\ N = 0
  /\ T = 1
  /\ use_locks = TRUE
  /\ Globals
  /\ arg \in Inputs
  /\ ret = -1

NextFn == Call

SpecFn == InitFn /\ [][NextFn]_vars

\* ------------------------------------------------------ shared definitions
AllDone == \A w \in 1..T : pc[w] = "done"

RECURSIVE SumEntries(_, _)
SumEntries(h, S) ==
  IF S = {} THEN 0
  ELSE LET s == CHOOSE x \in S : TRUE IN h[s] + SumEntries(h, S \ {s})

\* sum of all histogram entries (the entries not stored to are 0)
HistogramSum == SumEntries(histogram, DOMAIN histogram)

\* the stopping time of every value a worker can claim, computed once
StoppingTimes == [n \in 1..(MaxN + MaxT + 2) |-> compute_stopping_time(n)]

\* the values of 1..N that fetch_add has returned so far
ClaimedInRange == {claimed[i] : i \in 1..Len(claimed)} \cap (1..N)

\* a worker between its claim of a value in range and the end of that iteration
InFlight(w) == pc[w] \in {"lock", "unlock", "read", "write"}

\* number of inputs in 1..n whose stopping time is s
CountWithStoppingTime(n, s) ==
  Cardinality({m \in 1..n : compute_stopping_time(m) = s})

\* ------------------------------------------------------------------ claims

\* C1: the fetch_add calls return pairwise different values, whoever makes
\* them, and once all workers have finished every integer of [1, N] has been
\* returned.
C1_EachValueClaimedOnce ==
  /\ \A i, j \in 1..Len(claimed) : i # j => claimed[i] # claimed[j]
  /\ AllDone => \A v \in 1..N : \E i \in 1..Len(claimed) : claimed[i] = v

\* C1 witness: a finished run of at least two workers over a range of several values
C1_Witness == AllDone /\ T >= 2 /\ N >= 3 /\ Len(claimed) = N + T

\* C2: in synchronized mode, once all workers have finished, the histogram
\* entries sum to N.
C2_SyncSumIsN ==
  (use_locks /\ N >= 1 /\ AllDone) => HistogramSum = N

\* C3: in synchronized mode a worker between the load and the store of a
\* histogram entry holds the mutex, and no two workers are between load and
\* store at once.
C3_IncrementUnderMutex ==
  use_locks =>
    /\ \A w \in Workers : pc[w] = "write" => mtx = w
    /\ Cardinality({w \in Workers : pc[w] = "write"}) <= 1

\* C4: in synchronized mode, once all workers have finished, every histogram
\* entry s holds the number of inputs in [1, N] whose stopping time is s.
C4_SyncHistogramIsFunctionOfN ==
  (use_locks /\ N >= 1 /\ AllDone) =>
    \A s \in 0..CAP : Entry(histogram, s) = CountWithStoppingTime(N, s)

C6_LostUpdateIffRaced ==
  (~use_locks /\ N >= 1 /\ AllDone) => (raced <=> HistogramSum < N)

\* C6 witness: two workers, N = 13 or more, both loaded the same entry before
\* either stored it, and the finished run sums to less than N
C6_Witness ==
  ~use_locks /\ AllDone /\ T >= 2 /\ N >= 13 /\ raced /\ HistogramSum < N

\* C7: in unsynchronized mode the mutex is free in every state and no worker
\* is at the lock or at the unlock of the lock_guard.
C7_UnsyncNeverLocks ==
  ~use_locks =>
    /\ mtx = Free
    /\ \A w \in Workers : pc[w] \notin {"lock", "unlock"}

\* C7 witness: an unsynchronized worker is inside the histogram increment
C7_Witness ==
  ~use_locks /\ T >= 2 /\ \E w \in Workers : pc[w] = "write" /\ num[w] >= 2

\* a worker that is RUNNING: started and not DONE
Running(w) == pc[w] \in {"claim", "lock", "unlock", "read", "write"}

\* C8: a worker leaves RUNNING only by a claim that returns a value above N,
\* and that step leaves the histogram alone; a claim of a value in range
\* computes its stopping time and leads through one store to the histogram,
\* at that stopping time, back to the next claim; a DONE worker stays DONE
\* and claims nothing; the histogram changes only by the store of a RUNNING
\* worker.
C8_WorkerStateMachine ==
  [][\A w \in Workers :
       /\ pc[w] = "done" => (pc'[w] = "done" /\ num'[w] = num[w])
       /\ (pc[w] # "done" /\ pc'[w] = "done") =>
            /\ pc[w] = "claim"
            /\ COUNTER > N
            /\ num'[w] = COUNTER
            /\ histogram' = histogram
       /\ (pc[w] = "claim" /\ pc'[w] # "claim" /\ COUNTER <= N) =>
            /\ pc'[w] \in {"lock", "read"}
            /\ num'[w] = COUNTER
            /\ stopping_time'[w] = StoppingTimes[COUNTER]
            /\ histogram' = histogram
       /\ pc[w] = "lock" => pc'[w] \in {"lock", "unlock"}
       /\ pc[w] = "unlock" => pc'[w] \in {"unlock", "read"}
       /\ pc[w] = "read" => pc'[w] \in {"read", "write"}
       /\ pc[w] = "write" => pc'[w] \in {"write", "claim"}
       /\ (pc[w] = "write" /\ pc'[w] = "claim") =>
            /\ stopping_time[w] = StoppingTimes[num[w]]
            /\ \A s \in (DOMAIN histogram \cup DOMAIN histogram') \ {stopping_time[w]} :
                  Entry(histogram', s) = Entry(histogram, s)
       /\ histogram' # histogram =>
            \E v \in Workers : pc[v] = "write" /\ pc'[v] = "claim"
    ]_vars

\* C8 witness: one worker is DONE while another is still recording
C8_Witness ==
  \E w, v \in Workers : pc[w] = "done" /\ num[w] > N /\ pc[v] = "write"

\* the step of worker w is possible
CanStep(w) == ENABLED collatz_worker(w)

\* C9: under fair scheduling every worker reaches DONE and main gets past its
\* joins; and in no state is a worker RUNNING while no worker can step.
C9_Terminates ==
  /\ <>(AllDone /\ mainpc = "exit")
  /\ []((\E w \in Workers : Running(w)) => \E w \in Workers : CanStep(w))

\* C9 witness: main is past the joins of a synchronized run of two workers
C9_Witness ==
  mainpc = "exit" /\ AllDone /\ T >= 2 /\ N >= 2 /\ use_locks

\* The Collatz sequence on unbounded naturals, for reference: a natural is
\* the sequence of its base-65536 digits, lowest first.
BigFromInt(n) == <<n % Limb, n \div Limb>>

BigIsOne(b) == b[1] = 1 /\ \A i \in 2..Len(b) : b[i] = 0

BigIsEven(b) == b[1] % 2 = 0

\* 3 * b + c, digit i onward
RECURSIVE BigTriple(_, _, _)
BigTriple(b, i, c) ==
  IF i > Len(b)
    THEN (IF c = 0 THEN <<>> ELSE <<c>>)
    ELSE LET v == 3 * b[i] + c IN <<v % Limb>> \o BigTriple(b, i + 1, v \div Limb)

\* b / 2, digits i down to 1, r the remainder handed down
RECURSIVE BigHalve(_, _, _)
BigHalve(b, i, r) ==
  IF i = 0
    THEN <<>>
    ELSE LET v == r * Limb + b[i] IN BigHalve(b, i - 1, v % 2) \o <<v \div 2>>

BigNext(b) == IF BigIsEven(b) THEN BigHalve(b, Len(b), 0) ELSE BigTriple(b, 1, 1)

\* the sequence from b after k more steps, stopping at 1; c counts the steps
RECURSIVE ReferenceRun(_, _, _)
ReferenceRun(b, c, k) ==
  IF BigIsOne(b) \/ k = 0 THEN <<b, c>>
  ELSE IF k = 1 THEN <<BigNext(b), c + 1>>
  ELSE CHOOSE r \in {ReferenceRun(h[1], h[2], k - (k \div 2)) :
                       h \in {ReferenceRun(b, c, k \div 2)}} : TRUE

\* steps until the sequence from b reaches 1, counting at most fuel steps
ReferenceSteps(b, fuel) == ReferenceRun(b, 0, fuel)[2]

Reference(n) == ReferenceSteps(BigFromInt(n), CAP)

\* C10: for every input n >= 1 the result of compute_stopping_time(n) is the
\* number of Collatz steps from n to 1, or 1000 if 1 is not reached within
\* 1000 steps, as the reference on unbounded integers computes it; the
\* result for 1 is 0.
C10_MatchesReference ==
  ret # -1 => (ret = Reference(arg) /\ (arg = 1 => ret = 0))

\* 3 * n + 1 lies within [INT_MIN, INT_MAX]
TripleFits(n) == n <= (INT_MAX - 1) \div 3 /\ n >= -(INT_MAX \div 3) - 1

\* the loop of compute_stopping_time from the state <<n, steps, fits>>, at
\* most k iterations; fits turns FALSE when an iteration computes a 3 * n + 1
\* that leaves the 32-bit range
RECURSIVE FitsLoop(_, _)
FitsLoop(st, k) ==
  IF ~LoopRuns(st) THEN st
  ELSE IF k = 1
    THEN <<CollatzStep(st[1]), st[2] + 1, st[3] /\ (IsEven(st[1]) \/ TripleFits(st[1]))>>
  ELSE CHOOSE r \in {FitsLoop(h, k - (k \div 2)) : h \in {FitsLoop(st, k \div 2)}} : TRUE

\* no intermediate value of compute_stopping_time(n) leaves the 32-bit range
TrajectoryFits(n) == FitsLoop(<<n, 0, TRUE>>, 2 * CAP)[3]

\* C11: for every input n >= 1 that is an int, every value computed by
\* compute_stopping_time(n) stays within [INT_MIN, INT_MAX], and the result
\* of the 32-bit computation is the result on unbounded integers.
C11_FitsIn32Bits ==
  ret # -1 => (TrajectoryFits(arg) /\ ret \in 0..CAP /\ ret = Reference(arg))

\* the stopping times of 1..10 as the specification lists them
ListedStoppingTimes == <<0, 1, 7, 2, 5, 8, 16, 3, 19, 6>>

\* C12: with N = 10, T = 1 and locks on, the worker claims 1..10 in order and
\* the stopping time it computes for each is the listed one; the final
\* histogram has 1 at the indices 0,1,2,3,5,6,7,8,16,19, 0 at every other
\* index of 0..1000, and sum 10.
C12_ScenarioTen ==
  (N = 10 /\ T = 1 /\ use_locks) =>
    /\ \A i \in 1..Len(claimed) : claimed[i] = i
    /\ InFlight(1) => stopping_time[1] = ListedStoppingTimes[num[1]]
    /\ AllDone =>
         /\ \A s \in 0..CAP :
              Entry(histogram, s) = IF s \in {0, 1, 2, 3, 5, 6, 7, 8, 16, 19} THEN 1 ELSE 0
         /\ HistogramSum = 10

\* C12 witness: the scenario has run to its end
C12_Witness ==
  N = 10 /\ T = 1 /\ use_locks /\ AllDone /\ mainpc = "exit" /\ Len(claimed) = 11

\* C13: with N < 1 every claim returns a value above N and is the claiming
\* worker's only one; no worker gets past the range test, no stopping time is
\* computed, no histogram entry is stored to, and the run ends with an
\* all-zero histogram.
C13_EmptyRange ==
  N < 1 =>
    /\ \A i \in 1..Len(claimed) : claimed[i] > N
    /\ Len(claimed) = Cardinality({w \in Workers : pc[w] = "done"})
    /\ \A w \in Workers : pc[w] \in {"idle", "claim", "done"} /\ stopping_time[w] = 0
    /\ DOMAIN histogram = {}
    /\ \A s \in 0..CAP : Entry(histogram, s) = 0
    /\ HistogramSum = 0

\* C13 witness: a finished run of two workers on an empty range
C13_Witness == N < 1 /\ T >= 2 /\ AllDone /\ mainpc = "exit" /\ Len(claimed) = T

\* C14: COUNTER starts at 1 and has moved by +1 at each fetch_add (the values
\* returned so far are 1, 2, 3, ... in this order and COUNTER is the next one);
\* the claims that returned a value above N are one per DONE worker; for
\* N >= 0 COUNTER never exceeds N + T + 1 and is N + T + 1 once all are DONE.
C14_CounterBound ==
  /\ COUNTER = Len(claimed) + 1
  /\ \A i \in 1..Len(claimed) : claimed[i] = i
  /\ Cardinality({i \in 1..Len(claimed) : claimed[i] > N}) =
       Cardinality({w \in Workers : pc[w] = "done"})
  /\ N >= 0 => (COUNTER <= N + T + 1 /\ (AllDone => COUNTER = N + T + 1))

\* C14 witness: all workers DONE, each after one claim above N
C14_Witness ==
  N >= 2 /\ T >= 2 /\ AllDone /\ COUNTER = N + T + 1 /\ \A w \in 1..T : num[w] > N

\* C15: the stopping time of every input, the capped ones included, lies in
\* [0, CAP]: the guard stopping_time <= 1000 is true for it, the worker goes
\* on to the histogram increment, and the index it uses is an index of the
\* 1001-entry vector.
C15_IndexInRange ==
  ret # -1 =>
    /\ ret \in 0..CAP
    /\ Records(ret)
    /\ AfterLockBlock(ret) = "read"
    /\ DOMAIN Store(histogram, ret, IncrementStore(Entry(histogram, ret), Entry(histogram, ret)))
         \subseteq 0..CAP

\* C15 witness: an input whose loop ran into the cap
C15_Witness == ret = CAP /\ arg \in LargeInputs

\* the inputs that have been processed to the end of their loop iteration
Completed == ClaimedInRange \ {num[w] : w \in {v \in Workers : InFlight(v)}}

\* C16: the histogram is all zeros until the first claim; the entries stored
\* to are exactly the stopping times of the inputs processed so far; the
\* histogram changes only by the store of a worker that holds an input of
\* [1, N], that store sets the entry at the input's stopping time and leaves
\* every other entry as it was; a claim stores nothing; and once all workers
\* are DONE the histogram does not change.
C16_HistogramFrame ==
  /\ [](claimed = <<>> => \A s \in 0..CAP : Entry(histogram, s) = 0)
  /\ [](DOMAIN histogram = {StoppingTimes[n] : n \in Completed})
  /\ [][/\ \A w \in Workers :
            /\ (pc[w] = "write" /\ pc'[w] = "claim") =>
                 /\ num[w] \in 1..N
                 /\ stopping_time[w] = StoppingTimes[num[w]]
                 /\ Entry(histogram', stopping_time[w]) = tmp[w] + 1
                 /\ \A s \in (DOMAIN histogram \cup DOMAIN histogram') \ {stopping_time[w]} :
                      Entry(histogram', s) = Entry(histogram, s)
            /\ (pc[w] = "claim" /\ pc'[w] # "claim") => histogram' = histogram
        /\ histogram' # histogram =>
             \E w \in Workers : pc[w] = "write" /\ pc'[w] = "claim"
        /\ AllDone => histogram' = histogram
       ]_vars

\* C16 witness: some inputs are processed, one is being stored, one worker is DONE
C16_Witness ==
  /\ Cardinality(Completed) >= 3
  /\ \E w, v \in Workers : pc[w] = "write" /\ pc[v] = "done"

\* number of values of [1, N] claimed so far whose stopping time is s
ClaimedWithStoppingTime(s) ==
  Cardinality({n \in ClaimedInRange : StoppingTimes[n] = s})

\* every entry is at most the number of claimed inputs with that stopping time
EntriesWithinClaims ==
  \A s \in DOMAIN histogram : histogram[s] <= ClaimedWithStoppingTime(s)

Min(a, b) == IF a <= b THEN a ELSE b

\* C17 as stated: in every state each entry is at most the number of claimed
\* inputs with that stopping time, and the sum is at most min(COUNTER - 1, N).
C17_SumAtMostMin ==
  EntriesWithinClaims /\ HistogramSum <= Min(COUNTER - 1, N)

\* C17 amended: in every state each entry is at most the number of claimed
\* inputs with that stopping time, and for N >= 0 the sum is at most
\* min(COUNTER - 1, N); for N < 0 the sum is 0.
C17_SumAtMostMinNonNegative ==
  /\ EntriesWithinClaims
  /\ N >= 0 => HistogramSum <= Min(COUNTER - 1, N)
  /\ N < 0 => HistogramSum = 0

\* C17 witness: the middle of a run, entries stored and a store pending
C17_Witness ==
  /\ ~AllDone /\ N >= 3 /\ T >= 2
  /\ HistogramSum >= 2 /\ HistogramSum < COUNTER - 1
  /\ \E w \in Workers : pc[w] = "write"

Max(a, b) == IF a >= b THEN a ELSE b

\* C18: with one worker the finished run has, with locks and without, the
\* same histogram: entry s counts the inputs of [1, N] whose stopping time is
\* s, and the sum is max(N, 0).
C18_SingleWorkerSameHistogram ==
  (T = 1 /\ AllDone) =>
    /\ \A s \in 0..CAP :
         Entry(histogram, s) = Cardinality({n \in 1..N : StoppingTimes[n] = s})
    /\ HistogramSum = Max(N, 0)
    /\ ~raced

\* C18 witness: a finished single-worker run without locks over a range in
\* which two inputs share a stopping time
C18_Witness ==
  T = 1 /\ ~use_locks /\ AllDone /\ N >= 13 /\ Entry(histogram, 9) = 2

\* C19: the mutex is held only by a worker that stands between the lock and
\* the unlock of its lock_guard, so never by a worker at its next claim or a
\* DONE one; it is released only by the step of its holder; under fair
\* scheduling a worker that holds it releases it; and it is free once all
\* workers are DONE.
C19_MutexDiscipline ==
  /\ \A w \in Workers : (use_locks /\ mtx = w) ~> (mtx = Free)
  /\ [](use_locks =>
         /\ mtx # Free => (mtx \in 1..T /\ pc[mtx] = "unlock")
         /\ \A w \in Workers : pc[w] = "unlock" => mtx = w
         /\ AllDone => mtx = Free)
  /\ [][use_locks =>
         /\ (mtx # Free /\ mtx' # mtx) =>
              (mtx' = Free /\ pc[mtx] = "unlock" /\ pc'[mtx] \in {"read", "claim"})
         /\ (mtx = Free /\ mtx' # Free) =>
              (pc[mtx'] = "lock" /\ pc'[mtx'] = "unlock")
       ]_vars

\* C19 witness: one worker holds the mutex while another waits for it
C19_Witness ==
  use_locks /\ \E w, v \in Workers : mtx = w /\ pc[w] = "unlock" /\ pc[v] = "lock"

====
